---- MODULE Spec2Model ----
(***************************************************************************)
(* Model of src/stampede-checker.mjs, lines 196-413: the diff-style        *)
(* availability checker.  One run = one execution of the async main:       *)
(* scan -> key space -> load lastSeen.json -> diff -> compose -> dispatch   *)
(* -> write lastSeen.json.                                                  *)
(*                                                                         *)
(* Representation of JavaScript values                                      *)
(*  - a string built from parts is kept as the tuple of its parts, and is   *)
(*    turned into its UTF-16 code units (Chars..) wherever the code         *)
(*    compares strings (Array.prototype.sort);                              *)
(*  - a booking type name is the sequence of its "|"-separated segments;    *)
(*  - a JS number that may exceed 32 bits is [hi, lo] = hi * 10^9 + lo;     *)
(*  - a Date is [valid, min]: Invalid Date, or minutes since the epoch;     *)
(*  - SHA-1 is taken to be collision free: a digest is <<payload>>, the     *)
(*    empty string "" (the initial lastHash) is <<>>.                       *)
(***************************************************************************)
EXTENDS Integers, Sequences, FiniteSets, TLC

\* file:    the content of lastSeen.json
\* clock:   the local wall clock, in ms since local midnight of the first day
\* webhook: is DISCORD_WEBHOOK set
\* pool:    the slots the API can return in this environment
\* run:     the record of the run of main in progress (the process's memory)
\* prev:    what an observer keeps of the previous, finished run
\* runs:    the number of runs started so far
VARIABLES file, clock, webhook, pool, run, prev, runs

vars == <<file, clock, webhook, pool, run, prev, runs>>

\* ------------------------------------------------------------------ bounds
MaxRuns == 2

MaxSlots == 2

\* ------------------------------------------------------- program constants
\* const DEDUPE_COOLDOWN_MS = 2 * 60 * 1000
DEDUPE_COOLDOWN_MS == 2 * 60 * 1000

MinuteMs == 60 * 1000

HourMs == 60 * MinuteMs

\* slotsLeft: undefined
undefined == 0 - 1

\* String(Invalid Date time) has no minute of day
InvalidHM == 0 - 1

\* --------------------------------------------------------------- strings
RECURSIVE LexLess(_, _)
\* a < b for two strings given as code-unit sequences (what sort() uses)
LexLess(a, b) ==
  IF b = <<>> THEN FALSE
  ELSE IF a = <<>> THEN TRUE
  ELSE IF a[1] # b[1] THEN a[1] < b[1]
  ELSE LexLess(Tail(a), Tail(b))

\* code units of the atomic strings of the model
Chars(s) ==
  CASE s = "Sun, 01 Jun 2025" -> <<83,117,110,44,32,48,49,32,74,117,110,32,50,48,50,53>>
    [] s = "Mon, 02 Jun 2025" -> <<77,111,110,44,32,48,50,32,74,117,110,32,50,48,50,53>>
    [] s = "Invalid Date" -> <<73,110,118,97,108,105,100,32,68,97,116,101>>
    [] s = " left]" -> <<32,108,101,102,116,93>>
    [] s = "_" -> <<95>>
    [] s = "A" -> <<65>>
    [] s = "B" -> <<66>>
    [] s = "C" -> <<67>>
    [] s = "|" -> <<124>>
    [] s = " [" -> <<32,91>>
    [] s = ":" -> <<58>>

\* two-digit decimal rendering
Digits2(n) == <<48 + (n \div 10), 48 + (n % 10)>>

\* String(n) for the small counts of the model
DigitsOf(n) == IF n < 10 THEN <<48 + n>> ELSE Digits2(n)

RECURSIVE JoinSegs(_)
\* the type name as one string: segments joined by "|"
JoinSegs(segs) ==
  IF segs = <<>> THEN <<>>
  ELSE IF Len(segs) = 1 THEN Chars(segs[1])
  ELSE Chars(segs[1]) \o Chars("|") \o JoinSegs(Tail(segs))

\* ----------------------------------------------------------------- dates
\* Date.UTC of the ISO dates of the model, in minutes
DateEpochMin(isoDate) ==
  CASE isoDate = "2025-06-01" -> 29145600
    [] isoDate = "2025-06-02" -> 29145600 + 1440

\* is the calendar part of an ISO string a real date
DateValid(isoDate) == isoDate \in {"2025-06-01", "2025-06-02"}

\* Europe/London offset in minutes (BST 2025: 30 Mar 01:00Z - 26 Oct 01:00Z)
LondonOffsetMin(min) ==
  IF 29054940 <= min /\ min < 29357340 THEN 60 ELSE 0

InvalidDate == [valid |-> FALSE, min |-> 0]

\* new Date(`${isoDate}T${hh}:${mm}:${ss}Z`), seconds dropped
DateFromParts(isoDate, hh, mm, ss) ==
  IF /\ DateValid(isoDate)
     /\ mm <= 59
     /\ ss <= 59
     /\ (hh <= 23 \/ (hh = 24 /\ mm = 0 /\ ss = 0))
  THEN [valid |-> TRUE, min |-> DateEpochMin(isoDate) + hh * 60 + mm]
  ELSE InvalidDate

\* n > 1e12 for n = [hi, lo]
GreaterThan1e12(n) == n.hi > 1000 \/ (n.hi = 1000 /\ n.lo > 0)

\* n * 1000 for n <= 1e12
Times1000(n) ==
  [hi |-> n.hi * 1000 + (n.lo \div 1000000), lo |-> (n.lo % 1000000) * 1000]

\* new Date(ms): valid iff |ms| <= 8.64e15
DateFromMs(ms) ==
  IF ms.hi < 8640000 \/ (ms.hi = 8640000 /\ ms.lo = 0)
  THEN [valid |-> TRUE, min |-> (ms.hi * 1000000 + (ms.lo \div 1000)) \div 60]
  ELSE InvalidDate

\* fmtUKDate, lines 215-218
fmtUKDate(isoDate) ==
  CASE isoDate = "2025-06-01" -> "Sun, 01 Jun 2025"
    [] isoDate = "2025-06-02" -> "Mon, 02 Jun 2025"

\* dt.toLocaleTimeString("en-GB", {hour, minute, timeZone: TZ}): the minute
\* of the London day, or "Invalid Date"
toLocaleTimeHM(dt) ==
  IF dt.valid THEN (dt.min + LondonOffsetMin(dt.min)) % 1440 ELSE InvalidHM

\* --------------------------------------------------------------- parseTime
\* The value null (parseTime's "discard")
null == [isNull |-> TRUE, valid |-> FALSE, min |-> 0]

Some(d) == [isNull |-> FALSE, valid |-> d.valid, min |-> d.min]

\* parseTime(isoDate, v), lines 220-237.  v.time is the first non-null time
\* field of the slot: [kind |-> "missing"] when there is none.
parseTime(isoDate, v) ==
  LET raw == v.time IN
  IF raw.kind = "missing" THEN null
  ELSE IF raw.kind = "num"
    THEN Some(DateFromMs(IF GreaterThan1e12(raw.n) THEN raw.n ELSE Times1000(raw.n)))
  ELSE IF raw.kind = "clock"
    THEN Some(DateFromParts(isoDate, raw.hh, raw.mm, raw.ss))
  ELSE IF raw.kind = "iso"
    THEN LET d == DateFromParts(raw.date, raw.hh, raw.mm, raw.ss)
         IN IF d.valid THEN Some(d) ELSE null
  ELSE null

\* ------------------------------------------------------------- normalizer
\* getTypeName(slot), lines 239-245: the first type field, or no value
\* (<<>>) when the slot has none
getTypeName(slot) == slot.type

\* const type = getTypeName(s) ?? "_", line 342
typeOf(slot) == IF getTypeName(slot) = <<>> THEN <<"_">> ELSE getTypeName(slot)

\* typeof s?.slots_left === "number" ? s.slots_left : undefined, line 343
slotsLeftOf(slot) == slot.left

\* slotKey, line 259: the string `${isoDate}|${type}|${timeHM}`, kept as its
\* three parts (isoDate is ten characters and timeHM has no "|", so the
\* string determines the parts)
slotKey(isoDate, type, timeHM) ==
  [isoDate |-> isoDate, type |-> type, timeHM |-> timeHM]

\* --------------------------------------------------------------- key space
\* meta.get(k): the entry of k, or <<>> when there is none
MetaGet(meta, k) ==
  LET hits == SelectSeq(meta, LAMBDA e : e.key = k)
  IN IF hits = <<>> THEN <<>> ELSE <<hits[1].m>>

SeqHas(s, x) == \E i \in 1..Len(s) : s[i] = x

\* mutant: the remaining count is part of the key
Normalize_CountInKey(s) ==
  LET d == s.date
      dt == parseTime(d, s)
      timeHM == toLocaleTimeHM(dt)
      type == typeOf(s)
      slotsLeft == slotsLeftOf(s)
  IN IF dt.isNull THEN <<>>
     ELSE <<[key |-> slotKey(d, type, timeHM + 1440 * (1 + slotsLeft)),
             m |-> [isoDate |-> d, dateUK |-> fmtUKDate(d), type |-> type,
                    timeHM |-> timeHM, slotsLeft |-> slotsLeft]]>>

\* the body of the scan loop for one slot s of date s.date, lines 339-347:
\* nothing for a slot parseTime rejects, else its key and metadata
Normalize(s) ==
  LET d == s.date
      dt == parseTime(d, s)
      timeHM == toLocaleTimeHM(dt)
      type == typeOf(s)
      slotsLeft == slotsLeftOf(s)
  IN IF dt.isNull THEN <<>>
     ELSE <<[key |-> slotKey(d, type, timeHM),
             m |-> [isoDate |-> d, dateUK |-> fmtUKDate(d), type |-> type,
                    timeHM |-> timeHM, slotsLeft |-> slotsLeft]]>>

RECURSIVE KeySpace(_, _, _)
\* the scan loop of main, lines 335-350, over the slots of all dates in
\* date order; the result is the insertion-ordered Set and Map
KeySpace(slots, keys, meta) ==
  IF slots = <<>> THEN [keys |-> keys, meta |-> meta]
  ELSE
    LET n == Normalize(Head(slots))
    IN IF n = <<>> THEN KeySpace(Tail(slots), keys, meta)
       ELSE KeySpace(Tail(slots),
                     IF SeqHas(keys, n[1].key) THEN keys ELSE Append(keys, n[1].key),
                     IF MetaGet(meta, n[1].key) # <<>> THEN meta ELSE Append(meta, n[1]))

\* ---------------------------------------------------------------- composer
\* `${m.dateUK}|${m.type}` as code units
LabelChars(label) == Chars(label.dateUK) \o Chars("|") \o JoinSegs(label.type)

\* timeHM as the string toLocaleTimeString returns
HMChars(hm) ==
  IF hm = InvalidHM THEN Chars("Invalid Date")
  ELSE Digits2(hm \div 60) \o Chars(":") \o Digits2(hm % 60)

\* m.timeHM + tag, line 315-316
EntryChars(e) ==
  HMChars(e.timeHM) \o
    (IF e.slotsLeft # undefined
       THEN Chars(" [") \o DigitsOf(e.slotsLeft) \o Chars(" left]")
       ELSE <<>>)

RECURSIVE SortLabels_Descending(_)
\* mutant: the labels are sorted in descending order
SortLabels_Descending(S) ==
  IF S = {} THEN <<>>
  ELSE LET hi == CHOOSE x \in S :
                   \A y \in S \ {x} : LexLess(LabelChars(y), LabelChars(x))
       IN <<hi>> \o SortLabels_Descending(S \ {hi})

RECURSIVE SortLabels(_)
\* [...byLabel.keys()].sort(), line 319
SortLabels(S) ==
  IF S = {} THEN <<>>
  ELSE LET lo == CHOOSE x \in S :
                   \A y \in S \ {x} : LexLess(LabelChars(x), LabelChars(y))
       IN <<lo>> \o SortLabels(S \ {lo})

RECURSIVE SortEntries(_)
\* [...byLabel.get(label)].sort(), line 323
SortEntries(S) ==
  IF S = {} THEN <<>>
  ELSE LET lo == CHOOSE x \in S :
                   \A y \in S \ {x} : LexLess(EntryChars(x), EntryChars(y))
       IN <<lo>> \o SortEntries(S \ {lo})

\* the keys of the list that have metadata, with it (lines 310-312)
WithMeta(keys, metaMap) ==
  {MetaGet(metaMap, keys[i])[1] :
     i \in {j \in 1..Len(keys) : MetaGet(metaMap, keys[j]) # <<>>}}

\* byLabel after the first loop, lines 309-317
ByLabel(keys, metaMap) ==
  LET ms == WithMeta(keys, metaMap)
      labels == {[dateUK |-> m.dateUK, type |-> m.type] : m \in ms}
  IN [l \in labels |->
        {[timeHM |-> m.timeHM, slotsLeft |-> m.slotsLeft] :
           m \in {x \in ms : x.dateUK = l.dateUK /\ x.type = l.type}}]

\* one rendered line, lines 321-324: label.split("|") keeps the date and the
\* first segment of the type
Line(label, times) ==
  LET type == label.type[1]
  IN [dateUK |-> label.dateUK,
      times |-> times,
      suffix |-> IF type # "" /\ type # "_" THEN type ELSE ""]

\* groupLinesFromKeys(keys, metaMap), lines 308-327
groupLinesFromKeys(keys, metaMap) ==
  LET byLabel == ByLabel(keys, metaMap)
      labels == SortLabels(DOMAIN byLabel)
  IN [i \in 1..Len(labels) |-> Line(labels[i], SortEntries(byLabel[labels[i]]))]

\* ------------------------------------------------------------------ inputs
RawTime(kind, n, date, hh, mm, ss) ==
  [kind |-> kind, n |-> n, date |-> date, hh |-> hh, mm |-> mm, ss |-> ss]

Num(hi, lo) == [hi |-> hi, lo |-> lo]

\* "HH:MM" / "HH:MM:SS"
ClockTime(hh, mm) == RawTime("clock", Num(0, 0), "", hh, mm, 0)

\* an ISO date-time string, with or without the trailing Z
IsoTime(date, hh, mm) == RawTime("iso", Num(0, 0), date, hh, mm, 0)

NumTime(hi, lo) == RawTime("num", Num(hi, lo), "", 0, 0, 0)

\* a string that is neither a clock time nor a date Date() can parse
TextTime == RawTime("text", Num(0, 0), "", 0, 0, 0)

MissingTime == RawTime("missing", Num(0, 0), "", 0, 0, 0)

Slot(date, time, type, left) ==
  [date |-> date, time |-> time, type |-> type, left |-> left]

\* slots the availability API may return for the scanned dates
SlotA == Slot("2025-06-01", ClockTime(18, 0), <<>>, 3)
SlotB == Slot("2025-06-01", ClockTime(18, 0), <<>>, 5)
SlotG == Slot("2025-06-01", ClockTime(9, 30), <<>>, undefined)
SlotD == Slot("2025-06-02", IsoTime("2025-06-02", 18, 0), <<"A", "B">>, undefined)
SlotE == Slot("2025-06-02", ClockTime(18, 0), <<"A", "C">>, undefined)
\* 1748796600 s = 2025-06-01T16:50:00Z
SlotSec == Slot("2025-06-01", NumTime(1, 748796600), <<"A">>, undefined)
\* 9e15 ms, beyond the range of Date
SlotHuge == Slot("2025-06-01", NumTime(9000000, 0), <<"A">>, undefined)
\* "99:99"
SlotBadClock == Slot("2025-06-01", ClockTime(99, 99), <<>>, undefined)
SlotText == Slot("2025-06-01", TextTime, <<>>, undefined)
SlotMissing == Slot("2025-06-01", MissingTime, <<>>, 3)
\* "2025-13-45T18:00:00"
SlotBadIso == Slot("2025-06-02", IsoTime("2025-13-45", 18, 0), <<"A">>, undefined)

PoolDiff == {SlotA, SlotB, SlotG, SlotD, SlotE}

PoolParse == {SlotSec, SlotHuge, SlotBadClock, SlotText, SlotMissing, SlotBadIso}

\* the concatenated API answers of one scan: distinct slots, dates ascending
\* (dateRange, lines 247-257, and the loop of line 335)
Scans(P) ==
  {s \in UNION {[1..n -> P] : n \in 0..MaxSlots} :
     /\ \A i, j \in 1..Len(s) : i < j => s[i] # s[j]
     /\ \A i, j \in 1..Len(s) :
          i < j => DateEpochMin(s[i].date) <= DateEpochMin(s[j].date)}

\* ------------------------------------------------------------- state file
\* sha1 of JSON.stringify({added, removed}), lines 368-369
notifHash(addedLines, removedLines) ==
  <<[added |-> addedLines, removed |-> removedLines]>>

\* lastSeen.json: absent, not JSON, or a JSON object; keysT is the type of
\* its "keys" value
File(kind, keysT, keys, lastHash, lastSentAt) ==
  [kind |-> kind, keysT |-> keysT, keys |-> keys,
   lastHash |-> lastHash, lastSentAt |-> lastSentAt]

\* a one-character string, which is no slot key: new Set("ab") holds these
CharKey(c) == [isoDate |-> c, type |-> <<>>, timeHM |-> InvalidHM]

\* the local clock of the first run is after StartMs
StartMs == 3 * HourMs + 58 * MinuteMs

KeyOf(s) == KeySpace(<<s>>, <<>>, <<>>).keys[1]

InitFiles ==
  { File("absent", "missing", <<>>, <<>>, 0),
    File("garbage", "missing", <<>>, <<>>, 0),
    File("json", "number", <<>>, <<>>, 0),
    File("json", "object", <<>>, <<>>, 0),
    File("json", "null", <<>>, <<>>, 0),
    File("json", "string", <<CharKey("a"), CharKey("b")>>, <<>>, 0),
    File("json", "list", <<KeyOf(SlotA), KeyOf(SlotG)>>, <<>>, 0),
    File("json", "list", <<KeyOf(SlotD)>>,
         notifHash(groupLinesFromKeys(<<KeyOf(SlotD)>>,
                                      KeySpace(<<SlotD>>, <<>>, <<>>).meta), <<>>),
         StartMs) }

\* lines 353-359: the default state overlaid with the parsed file; a file
\* that is absent or not JSON leaves the default
LoadState(f) ==
  IF f.kind = "json"
  THEN [keysT |-> f.keysT, keys |-> f.keys,
        lastHash |-> f.lastHash, lastSentAt |-> f.lastSentAt]
  ELSE [keysT |-> "list", keys |-> <<>>, lastHash |-> <<>>, lastSentAt |-> 0]

\* new Set(state.keys || []), line 361: a number or an object is truthy and
\* not iterable, so the constructor throws a TypeError
SetThrows(state) == state.keysT \in {"number", "object"}

previousKeysOf(state) ==
  IF state.keysT \in {"list", "string"}
  THEN {state.keys[i] : i \in 1..Len(state.keys)}
  ELSE {}

\* ---------------------------------------------------------------- dispatch
\* sendEmbed, lines 262-281: no webhook -> logged and skipped; a failing
\* fetch is caught and logged
sendEmbed(hook, postOk, title) ==
  [title |-> title,
   outcome |-> IF ~hook THEN "skipped" ELSE IF postOk THEN "posted" ELSE "failed"]

RECURSIVE Dedup(_)
\* the insertion order of new Set(list)
Dedup(s) ==
  IF s = <<>> THEN <<>>
  ELSE LET r == Dedup(SelectSeq(Tail(s), LAMBDA x : x # Head(s)))
       IN <<Head(s)>> \o r

\* now.getHours() % 4 === 0 && now.getMinutes() < 5, line 375
shouldKeepAlive(now) ==
  ((now \div HourMs) % 24) % 4 = 0 /\ (now \div MinuteMs) % 60 < 5

\* mutant: the filter keeps the keys already seen
addedKeysOf_Inverted(currentKeys, previousKeys) ==
  SelectSeq(currentKeys, LAMBDA k : k \in previousKeys)

\* [...currentKeys].filter(k => !previousKeys.has(k)), line 362
addedKeysOf(currentKeys, previousKeys) ==
  SelectSeq(currentKeys, LAMBDA k : k \notin previousKeys)

\* [...previousKeys].filter(k => !currentKeys.has(k)), line 363
removedKeysOf(previousList, currentKeys) ==
  SelectSeq(previousList, LAMBDA k : ~SeqHas(currentKeys, k))

\* mutant: the cooldown is compared in seconds
withinCooldown_Seconds(nowMs, state) == (nowMs - state.lastSentAt) < 2 * 60

\* (nowMs - (state.lastSentAt || 0)) < DEDUPE_COOLDOWN_MS, line 371
withinCooldown(nowMs, state) == (nowMs - state.lastSentAt) < DEDUPE_COOLDOWN_MS

\* the branch of lines 380-410
Branch(somethingAdded, somethingRemoved, duplicate, keepAlive) ==
  IF somethingAdded \/ somethingRemoved
  THEN IF duplicate THEN "duplicate" ELSE "send"
  ELSE IF keepAlive THEN "keepalive" ELSE "silent"

\* the embeds of the send branch, lines 384-397
SendEmbeds(hook, postOk, somethingAdded, somethingRemoved) ==
  (IF somethingAdded THEN <<sendEmbed(hook, postOk, "added")>> ELSE <<>>) \o
  (IF somethingRemoved THEN <<sendEmbed(hook, postOk, "removed")>> ELSE <<>>)

\* the embed of the keepalive branch, lines 401-407
KeepaliveEmbeds(hook, postOk) == <<sendEmbed(hook, postOk, "keepalive")>>

\* mutant: a keepalive counts as a send
SavedDedup_Keepalive(branch, state, notif, nowMs) ==
  IF branch \in {"send", "keepalive"}
  THEN [lastHash |-> notif, lastSentAt |-> nowMs]
  ELSE [lastHash |-> state.lastHash, lastSentAt |-> state.lastSentAt]

\* state.lastHash / state.lastSentAt at the write of line 412
SavedDedup(branch, state, notif, nowMs) ==
  IF branch = "send"
  THEN [lastHash |-> notif, lastSentAt |-> nowMs]
  ELSE [lastHash |-> state.lastHash, lastSentAt |-> state.lastSentAt]

\* mutant: the keys are updated in the send branch only
SavedKeys_SendOnly(branch, state, currentKeys) ==
  IF branch = "send" THEN currentKeys ELSE state.keys

\* state.keys = [...currentKeys], line 373, as written at line 412
SavedKeys(branch, state, currentKeys) == currentKeys

NoRun ==
  [status |-> "none", scan |-> <<>>, now |-> 0, hook |-> FALSE,
   before |-> File("absent", "missing", <<>>, <<>>, 0), meta |-> <<>>,
   currentKeys |-> <<>>, previousKeys |-> {},
   loaded |-> LoadState(File("absent", "missing", <<>>, <<>>, 0)),
   addedKeys |-> <<>>, removedKeys |-> <<>>,
   addedLines |-> <<>>, removedLines |-> <<>>,
   keepAlive |-> FALSE, branch |-> "none", embeds |-> <<>>]

\* main, lines 330-413, on the file f, the API answers scan and the clock
\* nowMs: the record of the run and the file it leaves
Main(f, scan, nowMs, hook, postOk) ==
  LET ks == KeySpace(scan, <<>>, <<>>)
      currentKeys == ks.keys
      meta == ks.meta
      state == LoadState(f)
  IN IF SetThrows(state)
     THEN [file |-> f,
           run |-> [NoRun EXCEPT !.status = "threw", !.scan = scan, !.now = nowMs,
                                 !.hook = hook, !.currentKeys = currentKeys,
                                 !.before = f, !.meta = meta, !.loaded = state]]
     ELSE
       LET previousList == Dedup(state.keys)
           previousKeys == previousKeysOf(state)
           addedKeys == addedKeysOf(currentKeys, previousKeys)
           removedKeys == removedKeysOf(previousList, currentKeys)
           addedLines == groupLinesFromKeys(addedKeys, meta)
           removedLines == groupLinesFromKeys(removedKeys, meta)
           notif == notifHash(addedLines, removedLines)
           keepAlive == shouldKeepAlive(nowMs)
           somethingAdded == Len(addedLines) > 0
           somethingRemoved == Len(removedLines) > 0
           duplicate == state.lastHash = notif /\ withinCooldown(nowMs, state)
           branch == Branch(somethingAdded, somethingRemoved, duplicate, keepAlive)
           embeds == IF branch = "send"
                       THEN SendEmbeds(hook, postOk, somethingAdded, somethingRemoved)
                     ELSE IF branch = "keepalive" THEN KeepaliveEmbeds(hook, postOk)
                     ELSE <<>>
           saved == SavedDedup(branch, state, notif, nowMs)
       IN [file |-> File("json", "list", SavedKeys(branch, state, currentKeys),
                         saved.lastHash, saved.lastSentAt),
           run |-> [status |-> "done", scan |-> scan, now |-> nowMs, hook |-> hook,
                    before |-> f, meta |-> meta,
                    currentKeys |-> currentKeys, previousKeys |-> previousKeys,
                    loaded |-> state,
                    addedKeys |-> addedKeys, removedKeys |-> removedKeys,
                    addedLines |-> addedLines, removedLines |-> removedLines,
                    keepAlive |-> keepAlive, branch |-> branch, embeds |-> embeds]]

\* ------------------------------------------------------------ state machine
\* the scheduler starts the job one or two minutes after the previous start
Delays == {MinuteMs, 2 * MinuteMs}

\* what stays known of a run once its process is gone: its outcome, its
\* notification content and the slots it saw
Summary(r) ==
  [status |-> r.status, branch |-> r.branch, now |-> r.now,
   addedLines |-> r.addedLines, removedLines |-> r.removedLines,
   slots |-> {r.scan[i] : i \in 1..Len(r.scan)}]

\* does the POST reach Discord; without a webhook there is no POST
PostOutcomes(hook) == IF hook THEN BOOLEAN ELSE {TRUE}

InitWith(P, files) ==
  /\ file \in files
  /\ clock = StartMs
  /\ webhook \in BOOLEAN
  /\ pool = P
  /\ run = NoRun
  /\ prev = Summary(NoRun)
  /\ runs = 0

Init == InitWith(PoolDiff, InitFiles)

\* a first run (no state file) in an environment whose API returns slots in
\* every time encoding
InitParse == InitWith(PoolParse, {File("absent", "missing", <<>>, <<>>, 0)})

\* one scheduled execution of the script, from start to the write of
\* lastSeen.json (or to the uncaught exception)
Run ==
  /\ run.status = "none"
  /\ runs < MaxRuns
  /\ \E scan \in Scans(pool), dt \in Delays, postOk \in PostOutcomes(webhook) :
       \E r \in {Main(file, scan, clock + dt, webhook, postOk)} :
          /\ file' = r.file
          /\ run' = r.run
          /\ clock' = clock + dt
  /\ runs' = runs + 1
  /\ UNCHANGED <<webhook, pool, prev>>

\* the process ends: its memory is gone, the file stays
Exit ==
  /\ run.status # "none"
  /\ prev' = Summary(run)
  /\ run' = NoRun
  /\ UNCHANGED <<file, clock, webhook, pool, runs>>

Next == Run \/ Exit

Spec == Init /\ [][Next]_vars

SpecParse == InitParse /\ [][Next]_vars

\* ------------------------------------------------------------------ claims
Range(s) == {s[i] : i \in 1..Len(s)}

Done == run.status = "done"

\* the key set the persisted file held before the run, read off the file
FileKeySet(f) == IF f.kind = "json" THEN Range(f.keys) ELSE {}

\* the titles of the embeds the run handed to sendEmbed
Titles(r) == {r.embeds[i].title : i \in 1..Len(r.embeds)}

\* the slot's time does not parse to a valid instant
Unparseable(s) ==
  LET dt == parseTime(s.date, s) IN dt.isNull \/ ~dt.valid

\* the key a slot would get if it were kept
KeyIfKept(s) == slotKey(s.date, typeOf(s), toLocaleTimeHM(parseTime(s.date, s)))

\* C1: when the persisted snapshot holds keys and the scan yields none, the
\* run has removed = all prior keys, added = empty, and sends a "removed"
\* notification unless the duplicate cooldown suppresses it.
C1_RemovedNotified ==
  (Done /\ FileKeySet(run.before) # {} /\ run.currentKeys = <<>>) =>
     /\ Range(run.removedKeys) = FileKeySet(run.before)
     /\ run.addedKeys = <<>>
     /\ \/ run.branch = "duplicate"
        \/ run.branch = "send" /\ "removed" \in Titles(run)

\* C2: added = C \ P and removed = P \ C exactly, so the two are disjoint,
\* and both are empty when P = C.
C2_DiffIsSetDifference ==
  Done =>
    LET P == FileKeySet(run.before)
        C == Range(run.currentKeys)
    IN /\ Range(run.addedKeys) = C \ P
       /\ Range(run.removedKeys) = P \ C
       /\ Range(run.addedKeys) \cap Range(run.removedKeys) = {}
       /\ (P = C => run.addedKeys = <<>> /\ run.removedKeys = <<>>)

C2_Witness ==
  Done /\ run.addedKeys # <<>> /\ run.removedKeys # <<>>

\* C3: a raw slot whose time does not parse to a valid instant is discarded:
\* it contributes no key to the current key set, nor to added or removed.
C3_UnparseableDiscarded ==
  Done =>
    \A i \in 1..Len(run.scan) :
      Unparseable(run.scan[i]) =>
        KeyIfKept(run.scan[i]) \notin
          Range(run.currentKeys) \cup Range(run.addedKeys) \cup Range(run.removedKeys)

\* the file is missing, is not JSON, or is JSON whose keys value is no list
Malformed(f) == f.kind # "json" \/ f.keysT # "list"

\* C4: loading never fails the run: with a missing or malformed file the run
\* proceeds with the empty snapshot and no exception propagates.
C4_LoadNeverFails ==
  (run.status # "none" /\ Malformed(run.before)) =>
     /\ run.status = "done"
     /\ run.previousKeys = {}
     /\ run.loaded.lastHash = <<>>
     /\ run.loaded.lastSentAt = 0

\* the run took the send branch
Dispatched(r) == r.status = "done" /\ r.branch = "send"

SameContent(a, b) ==
  /\ a.addedLines = b.addedLines
  /\ a.removedLines = b.removedLines
  /\ (a.addedLines # <<>> \/ a.removedLines # <<>>)

\* C5: of two consecutive runs with the same non-empty notification content,
\* the second less than the cooldown after the first, at most one dispatches:
\* after a dispatching first run the second is suppressed as a duplicate.
C5_CooldownSuppresses ==
  (Done /\ prev.status = "done" /\ SameContent(prev, run)
        /\ run.now - prev.now < DEDUPE_COOLDOWN_MS) =>
     /\ ~(Dispatched(prev) /\ Dispatched(run))
     /\ (Dispatched(prev) => run.branch = "duplicate" /\ run.embeds = <<>>)

C5_Witness ==
  /\ Done /\ Dispatched(prev) /\ SameContent(prev, run)
  /\ run.now - prev.now < DEDUPE_COOLDOWN_MS
  /\ run.branch = "duplicate"

\* the slots s and t are the same slot but for the remaining count
SameButRemaining(s, t) ==
  /\ ~Unparseable(s) /\ ~Unparseable(t)
  /\ s.date = t.date
  /\ typeOf(s) = typeOf(t)
  /\ toLocaleTimeHM(parseTime(s.date, s)) = toLocaleTimeHM(parseTime(t.date, t))
  /\ s.left # t.left

\* the key k stands for the slot t: by its parts, or by the metadata the run
\* recorded under it
StandsFor(k, t) ==
  \/ k = KeyIfKept(t)
  \/ \E i \in 1..Len(run.meta) :
       /\ run.meta[i].key = k
       /\ run.meta[i].m.isoDate = t.date
       /\ run.meta[i].m.type = typeOf(t)
       /\ run.meta[i].m.timeHM = toLocaleTimeHM(parseTime(t.date, t))

\* C6: a slot with the same date, type and local time in two consecutive
\* scans but a different remaining count is in neither added nor removed of
\* the second run.
C6_CapacityIgnored ==
  (Done /\ prev.status = "done") =>
    \A s \in prev.slots : \A i \in 1..Len(run.scan) :
      SameButRemaining(s, run.scan[i]) =>
        \A k \in Range(run.addedKeys) \cup Range(run.removedKeys) :
          ~StandsFor(k, run.scan[i])

C6_Witness ==
  /\ Done /\ prev.status = "done"
  /\ \E s \in prev.slots : \E i \in 1..Len(run.scan) :
       SameButRemaining(s, run.scan[i])

\* C7: a keepalive is sent only in a run whose added and removed key sets are
\* both empty and whose clock is in the keepalive window; a run with a
\* non-empty added or removed set sends no keepalive and is not silent.
C7_DispatchPriority ==
  Done =>
    /\ ("keepalive" \in Titles(run) =>
          run.addedKeys = <<>> /\ run.removedKeys = <<>> /\ shouldKeepAlive(run.now))
    /\ ((run.addedKeys # <<>> \/ run.removedKeys # <<>>) =>
          run.branch \notin {"keepalive", "silent"})

\* the keys of the slots of a scan that are kept
ScanKeySet(scan) ==
  {KeyIfKept(scan[i]) : i \in {j \in 1..Len(scan) : ~parseTime(scan[j].date, scan[j]).isNull}}

\* C8: every run that reaches the end leaves a snapshot whose keys are the
\* key set of the scan, in every branch, without a webhook and after a failed
\* POST.
C8_SnapshotPersisted ==
  Done =>
    /\ file.kind = "json" /\ file.keysT = "list"
    /\ Range(file.keys) = ScanKeySet(run.scan)
    /\ Cardinality(Range(file.keys)) = Len(file.keys)

C8_Witness ==
  /\ Done /\ run.branch = "send"
  /\ \E i \in 1..Len(run.embeds) : run.embeds[i].outcome = "failed"
  /\ file.keys # <<>>

\* the metadata of the added keys of the run
AddedMeta == {MetaGet(run.meta, k)[1] : k \in Range(run.addedKeys)}

GroupsOf(ms) == {[dateUK |-> m.dateUK, type |-> m.type] : m \in ms}

EntriesOf(ms, g) ==
  {[timeHM |-> m.timeHM, slotsLeft |-> m.slotsLeft] :
     m \in {x \in ms : x.dateUK = g.dateUK /\ x.type = g.type}}

\* the place of group g among the groups G in the order of their labels
RankOf(G, g) ==
  1 + Cardinality({h \in G : LexLess(LabelChars(h), LabelChars(g))})

\* C9: for keys that all have metadata the composer emits one line per
\* (displayDate, type) group, in the order of the group labels; each line
\* holds every time entry of its group once, in sorted order.
C9_OneLinePerGroup ==
  Done =>
    LET G == GroupsOf(AddedMeta)
        lines == run.addedLines
    IN /\ Len(lines) = Cardinality(G)
       /\ \A g \in G :
            LET ln == lines[RankOf(G, g)]
            IN /\ ln.dateUK = g.dateUK
               /\ ln.suffix = (IF g.type[1] = "_" THEN "" ELSE g.type[1])
               /\ Range(ln.times) = EntriesOf(AddedMeta, g)
               /\ Len(ln.times) = Cardinality(EntriesOf(AddedMeta, g))
               /\ \A i, j \in 1..Len(ln.times) :
                    i < j => LexLess(EntryChars(ln.times[i]), EntryChars(ln.times[j]))

C9_Witness ==
  Done /\ Len(run.addedLines) = 2 /\ run.addedLines[1].dateUK = "Mon, 02 Jun 2025"
       /\ run.addedLines[2].dateUK = "Sun, 01 Jun 2025"

\* the dedup state the file held before the run (the defaults when the file
\* is absent or not JSON)
FileDedup(f) ==
  IF f.kind = "json" THEN <<f.lastHash, f.lastSentAt>> ELSE << <<>>, 0 >>

\* C10: lastHash and lastSentAt change only in a run that takes the send
\* branch, which sets them to the run's hash and time whatever the POST did;
\* duplicate, keepalive and silent runs leave them as loaded.
C10_DedupStateFrame ==
  Done =>
    /\ (run.branch = "send" =>
          /\ run.addedLines # <<>> \/ run.removedLines # <<>>
          /\ file.lastHash = notifHash(run.addedLines, run.removedLines)
          /\ file.lastSentAt = run.now)
    /\ (run.branch \in {"duplicate", "keepalive", "silent"} =>
          <<file.lastHash, file.lastSentAt>> = FileDedup(run.before))
    /\ run.branch \in {"send", "duplicate", "keepalive", "silent"}

C10_Witness ==
  /\ Done /\ run.branch = "send"
  /\ \E i \in 1..Len(run.embeds) : run.embeds[i].outcome # "posted"
  /\ FileDedup(run.before) # <<file.lastHash, file.lastSentAt>>

====
